---- MODULE Spec2Model ----
(***************************************************************************)
(* Model of copy-larger-files-to-s3.py: a multipart upload to S3 with a    *)
(* thread pool of part uploaders, bounded retries per part, commit or      *)
(* abort of the upload session, and the integrity check that follows.      *)
(*                                                                         *)
(* The main thread is a program counter (pc) walking through               *)
(* upload_file_multipart and the module-level script; every submitted      *)
(* future is a record whose state field is the position of the worker      *)
(* running upload_part_with_retries for it.  The S3 service is the         *)
(* environment: each of its calls returns or raises nondeterministically.  *)
(***************************************************************************)
EXTENDS Integers, Sequences, FiniteSets, TLC

\* ---------------------------------------------------------------- bounds
MaxFileSize == 3        \* largest source file, in bytes
MaxChunk    == 2        \* largest chunk_size tried
MaxWorkers  == 2        \* largest max_workers tried
MaxRetries  == 3        \* largest max_retries tried

VARIABLES
    file,           \* content of file_path, a sequence of bytes
    chunk_size,     \* line 54 (scaled down)
    max_workers,    \* parameter of upload_file_multipart
    max_retries,    \* parameter of upload_file_multipart
    pc,             \* position of the main thread
    created,        \* outcome of create_multipart_upload
    session,        \* remote state of the upload id: none/open/committed/aborted
    pos,            \* read offset of f
    part_number,    \* line 52
    part_hashes,    \* line 53
    futures,        \* line 59, with the state of each submitted task
    ci,             \* index of the future the collection loop waits on
    parts,          \* line 51
    exc,            \* exception propagating out of the try body
    completeCalls,  \* number of complete_multipart_upload invocations
    completeArg,    \* MultipartUpload.Parts of the last invocation
    abortCalls,     \* number of abort_multipart_upload invocations
    ret,            \* how upload_file_multipart ended
    checked,        \* check_file_integrity: its argument, then ETag and verdict
    completed       \* part numbers in the order their tasks finished

vars == <<file, chunk_size, max_workers, max_retries, pc, created, session,
          pos, part_number, part_hashes, futures, ci, parts, exc,
          completeCalls, completeArg, abortCalls, ret, checked, completed>>

inputs == <<file, chunk_size, max_workers, max_retries>>

\* ---------------------------------------------------------------- values
NoneVal   == [kind |-> "None"]
PyList(l) == [kind |-> "list", items |-> l]
NoExc     == [kind |-> "none"]
Running   == [kind |-> "running"]
NotCalled == [kind |-> "notcalled"]

Ack(etag, pn)  == [kind |-> "ack", ETag |-> etag, PartNumber |-> pn]
Error(src, pn, n) == [kind |-> "error", src |-> src, part |-> pn, call |-> n]

\* hashlib.md5 is stood in for by a digest with the same interface and an
\* 8-bit state: update() folds bytes into the state one by one (so feeding
\* the data in blocks gives the digest of the whole), hexdigest() prints the
\* state as lower-case hexadecimal digits.  A string is a sequence of
\* one-character strings.
HexDigits == <<"0", "1", "2", "3", "4", "5", "6", "7",
               "8", "9", "a", "b", "c", "d", "e", "f">>

Md5New == 7

RECURSIVE Md5Update(_, _)
Md5Update(h, bytes) ==
    IF bytes = <<>> THEN h
    ELSE Md5Update((h * 31 + Head(bytes) + 1) % 256, Tail(bytes))

HexDigest(h) == <<HexDigits[(h \div 16) + 1], HexDigits[(h % 16) + 1]>>

\* hashlib.md5(data).hexdigest()
md5(data) == HexDigest(Md5Update(Md5New, data))

\* the ETag S3 answers to upload_part for a body
ServiceETag(data) == md5(data)

Min(a, b) == IF a < b THEN a ELSE b

\* The source files tried: one of every size up to MaxFileSize.  The program
\* only moves bytes and digests them, it never branches on their value, so
\* a file whose bytes are pairwise distinct (byte i has value i) is the most
\* general content: it tells apart any two offsets of the file.
Files == {[i \in 1..n |-> i] : n \in 0..MaxFileSize}

\* ------------------------------------------------------- code decisions
\* f.read(chunk_size) at offset p: at most c bytes, fewer at end of file
ReadData_short(f, p, c) == SubSeq(f, p + 1, IF p + c <= Len(f) THEN p + c ELSE p)
ReadData(f, p, c) == SubSeq(f, p + 1, Min(p + c, Len(f)))

\* {'ETag': part['ETag'], 'PartNumber': part_number}
MakeAck_first(etag, pn) == Ack(etag, 1)
MakeAck(etag, pn) == Ack(etag, pn)

\* while attempt < max_retries / if attempt < max_retries
KeepTrying_inclusive(attempt, budget) == attempt <= budget
KeepTrying(attempt, budget) == attempt < budget

\* part_hashes.append(part_hash)
AppendHash_front(hs, h) == <<h>> \o hs
AppendHash(hs, h) == Append(hs, h)

\* if attempt < max_retries: time.sleep(delay) else: raise  (line 33)
SleepBeforeRetry_always(attempt, budget) == TRUE
SleepBeforeRetry(attempt, budget) == KeepTrying(attempt, budget)

\* parts.append(future.result())
AppendPart_overwrite(ps, r) == <<r>>
AppendPart_front(ps, r) == <<r>> \o ps
AppendPart(ps, r) == Append(ps, r)

Finished(t) == t.state \in {"returned", "raised"}
InFlight(fs) == {i \in DOMAIN fs : fs[i].state \in {"running", "sleeping"}}
Queued(fs)   == {i \in DOMAIN fs : fs[i].state = "queued"}

\* ThreadPoolExecutor(max_workers): a thread is free to take a work item
WorkerAvailable_unbounded(fs, w) == TRUE
WorkerAvailable(fs, w) == Cardinality(InFlight(fs)) < w

\* leaving `with ThreadPoolExecutor(...)`: shutdown(wait=True)
PoolDrained_nowait(fs) == TRUE
PoolDrained(fs) == \A i \in DOMAIN fs : Finished(fs[i])

\* future.result() re-raises the exception of the task
ResultRaises_never(t) == FALSE
ResultRaises(t) == t.state = "raised"

\* after the pool is left: line 82 on the normal path, line 91 otherwise
AfterPool_commit(e) == "complete"
AfterPool(e) == IF e = NoExc THEN "complete" ELSE "abort"

\* except Exception (line 91) around complete_multipart_upload
AfterCompleteError_return == "return"
AfterCompleteError == "abort"

\* complete_multipart_upload returned: the try body ends, line 100 is next
AfterCompleteOk_abort == "abort"
AfterCompleteOk == "returned"

\* except (NoCredentialsError, PartialCredentialsError): ... return
AfterCredentialError_fallthrough == "read"
AfterCredentialError == "returned"

\* ------------------------------------------------- check_file_integrity
UpperDigits == <<"0", "1", "2", "3", "4", "5", "6", "7",
                 "8", "9", "A", "B", "C", "D", "E", "F">>

\* str.strip(c)
RECURSIVE StripLeft(_, _)
StripLeft(s, c) ==
    IF s # <<>> /\ Head(s) = c THEN StripLeft(Tail(s), c) ELSE s

RECURSIVE StripRight(_, _)
StripRight(s, c) ==
    IF s # <<>> /\ s[Len(s)] = c
      THEN StripRight(SubSeq(s, 1, Len(s) - 1), c)
      ELSE s

Strip(s, c) == StripRight(StripLeft(s, c), c)

\* c in s
Contains(s, c) == \E i \in DOMAIN s : s[i] = c

\* s.split(c)[0]
SplitFirst(s, c) ==
    IF Contains(s, c)
      THEN SubSeq(s, 1, (CHOOSE i \in DOMAIN s :
                            s[i] = c /\ \A j \in 1..(i - 1) : s[j] # c) - 1)
      ELSE s

\* bytes.fromhex(s): two hexadecimal digits of either case per byte
HexValue(c) ==
    CHOOSE v \in 0..15 : HexDigits[v + 1] = c \/ UpperDigits[v + 1] = c

FromHex(s) ==
    [k \in 1..(Len(s) \div 2) |->
        16 * HexValue(s[2 * k - 1]) + HexValue(s[2 * k])]

\* lines 9-13: the file is digested in blocks of 4096 bytes
ReadBlock == 4096

RECURSIVE UpdateBlocks(_, _, _)
UpdateBlocks(h, f, p) ==
    LET chunk == SubSeq(f, p + 1, Min(p + ReadBlock, Len(f))) IN
    IF chunk = <<>> THEN h
    ELSE UpdateBlocks(Md5Update(h, chunk), f, p + Len(chunk))

calculate_md5(f) == HexDigest(UpdateBlocks(Md5New, f, 0))

\* lines 113-118: one update per part hash, in list order
RECURSIVE UpdateParts(_, _)
UpdateParts(h, hashes) ==
    IF hashes = <<>> THEN h
    ELSE UpdateParts(Md5Update(h, FromHex(Head(hashes))), Tail(hashes))

CombineDigests(hashes) == HexDigest(UpdateParts(Md5New, hashes))

\* line 108
StripQuotes(raw) == Strip(raw, "\"")

\* line 111
IsMultipart(etag) == Contains(etag, "-")

\* line 120: etag.split('-')[0]
ETagPrefix(etag) == SplitFirst(etag, "-")

\* lines 120 and 126: ==
SameString_nocase(a, b) ==
    /\ Len(a) = Len(b)
    /\ \A i \in DOMAIN a :
          \E v \in 1..16 : /\ a[i] \in {HexDigits[v], UpperDigits[v]}
                           /\ b[i] \in {HexDigits[v], UpperDigits[v]}
SameString(a, b) == a = b

\* lines 111-129: what is printed, or the TypeError of iterating None
Verdict(local_md5, etag, hashes) ==
    IF IsMultipart(etag)
      THEN IF hashes.kind = "None" THEN "TypeError"
           ELSE IF SameString(CombineDigests(hashes.items), ETagPrefix(etag))
                  THEN "identical" ELSE "different"
      ELSE IF SameString(local_md5, etag) THEN "identical" ELSE "different"

CeilDiv(a, b) == (a + b - 1) \div b

RECURSIVE Flatten(_)
Flatten(ss) == IF ss = <<>> THEN <<>> ELSE Head(ss) \o Flatten(Tail(ss))

\* --------------------------------------------- arguments of the verifier
Upper(s) == [i \in DOMAIN s |-> UpperDigits[HexValue(s[i]) + 1]]
Lower(s) == [i \in DOMAIN s |-> HexDigits[HexValue(s[i]) + 1]]

\* the digest over the concatenation of the raw part digests
ConcatDigest(hashes) ==
    HexDigest(Md5Update(Md5New,
        Flatten([i \in DOMAIN hashes |-> FromHex(hashes[i])])))

\* the list upload_file_multipart builds for file g read in chunks of c
ChunkHashes(g, c) ==
    [i \in 1..CeilDiv(Len(g), c) |->
        md5(SubSeq(g, (i - 1) * c + 1, Min(i * c, Len(g))))]

HashLists == {ChunkHashes(g, c) : g \in Files, c \in 1..MaxChunk}

Digests == {md5(g) : g \in Files} \cup {ConcatDigest(hl) : hl \in HashLists}

Suffixes == {<<>>, <<"-", "1">>, <<"-", "2">>, <<"-", "3">>,
             <<"-", "2", "-", "1">>}

\* what head_object may answer as ETag: a digest in either case, alone or
\* with a part-count suffix, quoted (as S3 does) or not
ETags ==
    {q \o v \o sfx \o q :
        v \in Digests \cup {Upper(d) : d \in Digests},
        sfx \in Suffixes,
        q \in {<<>>, <<"\"">>}}

\* ------------------------------------------------------------------ Init
Init ==
    /\ file \in Files
    /\ chunk_size \in 1..MaxChunk
    /\ max_workers \in 1..MaxWorkers
    /\ max_retries \in 0..MaxRetries
    /\ pc = "create"
    /\ created = "pending"
    /\ session = "none"
    /\ pos = 0
    /\ part_number = 1
    /\ part_hashes = <<>>
    /\ futures = <<>>
    /\ ci = 1
    /\ parts = <<>>
    /\ exc = NoExc
    /\ completeCalls = 0
    /\ completeArg = <<>>
    /\ abortCalls = 0
    /\ ret = Running
    /\ checked = NotCalled
    /\ completed = <<>>

\* ----------------------------------------------------------- main thread
\* lines 45-49: create_multipart_upload
CreateMultipartUpload ==
    /\ pc = "create"
    /\ \E outcome \in {"ok", "credentials", "other"} :
        /\ created' = outcome
        /\ CASE outcome = "ok" ->
                  /\ session' = "open"
                  /\ pc' = "read"
                  /\ ret' = ret
             [] outcome = "credentials" ->
                  /\ session' = session
                  /\ pc' = AfterCredentialError
                  /\ ret' = IF AfterCredentialError = "returned"
                              THEN [kind |-> "return", value |-> NoneVal]
                              ELSE ret
             [] outcome = "other" ->
                  /\ session' = session
                  /\ pc' = "crashed"
                  /\ ret' = [kind |-> "raise", error |-> Error("create", 0, 1)]
    /\ UNCHANGED <<inputs, completed, pos, part_number, part_hashes, futures,
                   ci, parts, exc, completeCalls, completeArg, abortCalls,
                   checked>>

\* lines 61-75: one turn of the read loop
ReadChunk ==
    /\ pc = "read"
    /\ LET data == ReadData(file, pos, chunk_size) IN
        IF data = <<>>
          THEN /\ pc' = "collect"
               /\ UNCHANGED <<pos, part_number, part_hashes, futures>>
          ELSE /\ futures' = Append(futures,
                     [part_number |-> part_number, data |-> data,
                      state |-> "queued", attempt |-> 0, calls |-> 0,
                      result |-> NoneVal])
               /\ part_hashes' = AppendHash(part_hashes, md5(data))
               /\ part_number' = part_number + 1
               /\ pos' = pos + Len(data)
               /\ pc' = pc
    /\ UNCHANGED <<inputs, completed, created, session, ci, parts, exc,
                   completeCalls, completeArg, abortCalls, ret, checked>>

\* line 60 / 62: open or read raises; the exception leaves both with blocks
ReadError ==
    /\ pc = "read"
    /\ exc' = Error("read", 0, 0)
    /\ pc' = "join"
    /\ UNCHANGED <<inputs, completed, created, session, pos, part_number,
                   part_hashes, futures, ci, parts, completeCalls,
                   completeArg, abortCalls, ret, checked>>

\* lines 78-79: wait for the next future in submission order
CollectResult ==
    /\ pc = "collect"
    /\ ci <= Len(futures)
    /\ Finished(futures[ci])
    /\ IF ResultRaises(futures[ci])
         THEN /\ exc' = futures[ci].result
              /\ pc' = "join"
              /\ UNCHANGED <<parts, ci>>
         ELSE /\ parts' = AppendPart(parts, futures[ci].result)
              /\ ci' = ci + 1
              /\ UNCHANGED <<exc, pc>>
    /\ UNCHANGED <<inputs, completed, created, session, pos, part_number,
                   part_hashes, futures, completeCalls, completeArg,
                   abortCalls, ret, checked>>

\* line 78: the for loop is exhausted
CollectDone ==
    /\ pc = "collect"
    /\ ci > Len(futures)
    /\ pc' = "join"
    /\ UNCHANGED <<inputs, completed, created, session, pos, part_number,
                   part_hashes, futures, ci, parts, exc, completeCalls,
                   completeArg, abortCalls, ret, checked>>

\* line 58: ThreadPoolExecutor.__exit__ waits for every submitted task
ExecutorExit ==
    /\ pc = "join"
    /\ PoolDrained(futures)
    /\ pc' = AfterPool(exc)
    /\ UNCHANGED <<inputs, completed, created, session, pos, part_number,
                   part_hashes, futures, ci, parts, exc, completeCalls,
                   completeArg, abortCalls, ret, checked>>

\* lines 82-89 and 100: complete_multipart_upload, then return part_hashes
CompleteMultipartUpload ==
    /\ pc = "complete"
    /\ completeCalls' = completeCalls + 1
    /\ completeArg' = parts
    /\ \E ok \in BOOLEAN :
        IF ok
          THEN /\ session' = "committed"
               /\ pc' = AfterCompleteOk
               /\ ret' = IF AfterCompleteOk = "returned"
                           THEN [kind |-> "return", value |-> PyList(part_hashes)]
                           ELSE ret
               /\ exc' = exc
          ELSE /\ exc' = Error("complete", 0, completeCalls + 1)
               /\ IF AfterCompleteError = "abort"
                    THEN pc' = "abort" /\ ret' = ret
                    ELSE /\ pc' = "returned"
                         /\ ret' = [kind |-> "return", value |-> PyList(part_hashes)]
               /\ session' = session
    /\ UNCHANGED <<inputs, completed, created, pos, part_number, part_hashes,
                   futures, ci, parts, abortCalls, checked>>

\* lines 91-100: abort_multipart_upload, print, return part_hashes
AbortMultipartUpload ==
    /\ pc = "abort"
    /\ abortCalls' = abortCalls + 1
    /\ \E ok \in BOOLEAN :
        IF ok
          THEN /\ session' = "aborted"
               /\ ret' = [kind |-> "return", value |-> PyList(part_hashes)]
               /\ pc' = "returned"
          ELSE /\ session' = session
               /\ ret' = [kind |-> "raise",
                          error |-> Error("abort", 0, abortCalls + 1)]
               /\ pc' = "crashed"
    /\ UNCHANGED <<inputs, completed, created, pos, part_number, part_hashes,
                   futures, ci, parts, exc, completeCalls, completeArg,
                   checked>>

\* lines 137-140: the script passes whatever was returned to the verifier
CallCheckFileIntegrity ==
    /\ pc = "returned"
    /\ checked' = [kind |-> "called", part_hashes |-> ret.value]
    /\ pc' = "done"
    /\ UNCHANGED <<inputs, completed, created, session, pos, part_number,
                   part_hashes, futures, ci, parts, exc, completeCalls,
                   completeArg, abortCalls, ret>>

\* ---------------------------------------------------------------- workers
mainvars == <<inputs, pc, created, session, pos, part_number, part_hashes,
              ci, parts, exc, completeCalls, completeArg, abortCalls, ret,
              checked>>

\* a pool thread takes the oldest work item off the queue
StartTask(i) ==
    /\ i \in Queued(futures)
    /\ \A j \in Queued(futures) : i <= j
    /\ WorkerAvailable(futures, max_workers)
    /\ futures' = [futures EXCEPT ![i].state = "running"]
    /\ UNCHANGED <<mainvars, completed>>

\* lines 18-38: one attempt of upload_part_with_retries
UploadAttempt(i) ==
    /\ i \in DOMAIN futures
    /\ futures[i].state = "running"
    /\ KeepTrying(futures[i].attempt, max_retries)
    /\ LET t == futures[i]
           n == t.calls + 1
       IN \E ok \in BOOLEAN :
           IF ok
             THEN futures' = [futures EXCEPT ![i] =
                      [t EXCEPT !.calls = n, !.state = "returned",
                          !.result = MakeAck(ServiceETag(t.data), t.part_number)]]
             ELSE futures' = [futures EXCEPT ![i] =
                      IF SleepBeforeRetry(t.attempt + 1, max_retries)
                        THEN [t EXCEPT !.calls = n, !.attempt = t.attempt + 1,
                                 !.state = "sleeping"]
                        ELSE [t EXCEPT !.calls = n, !.attempt = t.attempt + 1,
                                 !.state = "raised",
                                 !.result = Error("upload_part", t.part_number, n)]]
    /\ completed' = IF Finished(futures'[i]) THEN Append(completed, i)
                                              ELSE completed
    /\ UNCHANGED mainvars

\* line 35: time.sleep(delay) is over
RetryDelayOver(i) ==
    /\ i \in DOMAIN futures
    /\ futures[i].state = "sleeping"
    /\ futures' = [futures EXCEPT ![i].state = "running"]
    /\ UNCHANGED <<mainvars, completed>>

\* line 18: the loop condition is false, the function falls off its end
FallOffLoop(i) ==
    /\ i \in DOMAIN futures
    /\ futures[i].state = "running"
    /\ ~KeepTrying(futures[i].attempt, max_retries)
    /\ futures' = [futures EXCEPT ![i].state = "returned", ![i].result = NoneVal]
    /\ completed' = Append(completed, i)
    /\ UNCHANGED mainvars

Worker(i) ==
    \/ StartTask(i)
    \/ UploadAttempt(i)
    \/ RetryDelayOver(i)
    \/ FallOffLoop(i)

MainThread ==
    \/ CreateMultipartUpload
    \/ ReadChunk
    \/ ReadError
    \/ CollectResult
    \/ CollectDone
    \/ ExecutorExit
    \/ CompleteMultipartUpload
    \/ AbortMultipartUpload
    \/ CallCheckFileIntegrity

Next ==
    \/ MainThread
    \/ \E i \in 1..MaxFileSize : Worker(i)

Spec == Init /\ [][Next]_vars

\* the interpreter schedules every runnable thread; S3 calls return
FairSpec ==
    /\ Spec
    /\ WF_vars(MainThread)
    /\ \A i \in 1..MaxFileSize : WF_vars(Worker(i))

TypeOK ==
    /\ pc \in {"create", "read", "collect", "join", "complete", "abort",
               "returned", "done", "crashed"}
    /\ session \in {"none", "open", "committed", "aborted"}
    /\ pos \in 0..Len(file)
    /\ Len(futures) = Len(part_hashes)
    /\ part_number = Len(futures) + 1

\* ----------------------------------------------------------------- claims
PartFailed == \E i \in DOMAIN futures : futures[i].state = "raised"
Ended == pc \in {"returned", "done", "crashed"}


\* C1: once a part has permanently failed, complete_multipart_upload is
\* never invoked and abort_multipart_upload is invoked exactly once by the
\* time upload_file_multipart has ended (and never more than once before).
C1_AbortOnceNeverCommit ==
    PartFailed =>
        /\ completeCalls = 0
        /\ abortCalls <= 1
        /\ Ended => abortCalls = 1

C1_Witness ==
    /\ Ended
    /\ abortCalls = 1
    /\ \E i, j \in DOMAIN futures :
        /\ futures[i].state = "raised"
        /\ futures[j].state = "returned"
        /\ futures[j].result.kind = "ack"

C3_RetryBudget ==
    max_retries >= 1 =>
        \A i \in DOMAIN futures :
            LET t == futures[i] IN
            /\ t.calls <= max_retries
            /\ t.state = "returned" =>
                /\ t.result = Ack(ServiceETag(t.data), i)
                /\ t.attempt < max_retries
                /\ t.calls = t.attempt + 1
            /\ t.state = "raised" =>
                /\ t.attempt = max_retries
                /\ t.calls = max_retries
                /\ t.result = Error("upload_part", i, max_retries)

C3_Witness ==
    /\ max_retries = 3
    /\ \E i \in DOMAIN futures :
        /\ futures[i].state = "returned"
        /\ futures[i].attempt = 2
        /\ futures[i].calls = 3

\* C4: a session that was begun eventually is committed or has abort
\* invoked on it, whichever of read, part upload or commit fails.
C4_NeverDangling ==
    (session = "open") ~> (session = "committed" \/ abortCalls > 0)

C4_Witness ==
    /\ completeCalls = 1
    /\ abortCalls = 1
    /\ exc.kind = "error"
    /\ exc.src = "complete"

\* C5: when complete_multipart_upload or abort_multipart_upload is invoked
\* every submitted task has returned or raised.
C5_JoinBarrier ==
    (completeCalls > 0 \/ abortCalls > 0) =>
        \A i \in DOMAIN futures : futures[i].state \in {"returned", "raised"}

C5_Witness ==
    /\ abortCalls = 1
    /\ exc.kind = "error"
    /\ exc.src = "upload_part"
    /\ \E a, b \in DOMAIN completed :
        /\ a < b
        /\ completed[a] = exc.part
        /\ completed[b] > exc.part

\* C6: the number of tasks a worker is executing (attempting or in a retry
\* delay) never exceeds max_workers.
C6_BoundedParallelism ==
    Cardinality({i \in DOMAIN futures :
                    futures[i].state \in {"running", "sleeping"}}) <= max_workers

C6_Witness ==
    /\ Cardinality(InFlight(futures)) = max_workers
    /\ Queued(futures) # {}
    /\ \E i \in DOMAIN futures : futures[i].state = "sleeping"

\* C7: parts are numbered 1, 2, ... in submission order in every state, and
\* when the read loop has ended there are ceil(S/C) of them, every part but
\* the last has C bytes, and together they are the S bytes of the file.
C7_Chunker ==
    /\ \A i \in DOMAIN futures : futures[i].part_number = i
    /\ pc = "collect" =>
        /\ Len(futures) = CeilDiv(Len(file), chunk_size)
        /\ \A i \in DOMAIN futures :
              i < Len(futures) => Len(futures[i].data) = chunk_size
        /\ Flatten([i \in DOMAIN futures |-> futures[i].data]) = file

C7_Witness ==
    /\ pc = "collect"
    /\ Len(futures) >= 2
    /\ Len(futures[Len(futures)].data) < chunk_size

\* C8: after a permanent part failure upload_file_multipart ends by raising
\* the failure to its caller, not by returning normally.
C8_FailureSurfaced ==
    (PartFailed /\ ret.kind # "running") =>
        /\ ret.kind = "raise"
        /\ ret.error.src = "upload_part"

\* C9: check_file_integrity is called only after a committed transfer.
C9_VerifyOnlyCommitted ==
    checked.kind = "called" => session = "committed"

\* C10: after a credential error of create_multipart_upload the function
\* returns without reading or dispatching a part and without calling
\* upload_part, complete_multipart_upload or abort_multipart_upload.
C10_CredentialFailure ==
    created = "credentials" =>
        /\ ret = [kind |-> "return", value |-> NoneVal]
        /\ session = "none"
        /\ pos = 0
        /\ futures = <<>>
        /\ part_hashes = <<>>
        /\ completeCalls = 0
        /\ abortCalls = 0

C10_Witness ==
    /\ created = "credentials"
    /\ pc = "returned"

\* C12: a failing abort_multipart_upload is only logged; it never leaves
\* upload_file_multipart as the raised error.
C12_AbortErrorSwallowed ==
    ~(ret.kind = "raise" /\ ret.error.src = "abort")

\* C13: once a part has permanently failed no further part is submitted.
C13_NoDispatchAfterFailure ==
    [][PartFailed => Len(futures') = Len(futures)]_vars

\* C14 (as claimed): once complete_multipart_upload has been invoked,
\* abort_multipart_upload is never invoked.
C14_NoAbortAfterCommitCall ==
    completeCalls > 0 => abortCalls = 0

\* C14 (amended): commit and abort are each invoked at most once; abort
\* follows a commit call only when that call raised, and a session whose
\* commit returned successfully is never aborted.
C14_NoAbortAfterCommitted ==
    /\ completeCalls <= 1
    /\ abortCalls <= 1
    /\ session = "committed" => (completeCalls = 1 /\ abortCalls = 0)
    /\ (completeCalls > 0 /\ abortCalls > 0) =>
          (exc.kind = "error" /\ exc.src = "complete" /\ session # "committed")

C14_Witness ==
    /\ session = "committed"
    /\ pc = "done"
    /\ Len(completeArg) >= 2

\* C16: after a read error complete_multipart_upload is never invoked,
\* abort_multipart_upload is invoked only when every part dispatched before
\* the error has returned or raised, and exactly once by the time
\* upload_file_multipart has ended.
C16_ReadErrorAborts ==
    (exc.kind = "error" /\ exc.src = "read") =>
        /\ completeCalls = 0
        /\ abortCalls <= 1
        /\ abortCalls > 0 =>
              \A i \in DOMAIN futures :
                  futures[i].state \in {"returned", "raised"}
        /\ Ended => abortCalls = 1

C16_Witness ==
    /\ exc.kind = "error"
    /\ exc.src = "read"
    /\ abortCalls = 1
    /\ 0 < pos
    /\ pos < Len(file)
    /\ \E i \in DOMAIN futures : futures[i].result.kind = "ack"

\* C19: for an empty file one part with number 1 is dispatched and commit
\* receives exactly one acknowledgment.
C19_EmptyFileOnePart ==
    Len(file) = 0 =>
        /\ pc = "collect" => Len(futures) = 1
        /\ completeCalls > 0 => Len(completeArg) = 1

\* C20: whatever the budget, a finished part upload made at least one
\* attempt, and one that returned did so with an acknowledgment of its own
\* part number.
C20_AlwaysAttempts ==
    \A i \in DOMAIN futures :
        /\ Finished(futures[i]) => futures[i].calls >= 1
        /\ futures[i].state = "returned" =>
              (futures[i].result.kind = "ack"
                 /\ futures[i].result.PartNumber = i)

\* C15: in every state the i-th entry of part_hashes is the digest of the
\* i-th chunk of the file, whatever the tasks are doing, and that list is
\* what check_file_integrity receives and folds front to back.
C15_HashesInSequenceOrder ==
    /\ Len(part_hashes) = Len(futures)
    /\ \A i \in DOMAIN part_hashes :
          part_hashes[i] =
              md5(SubSeq(file, (i - 1) * chunk_size + 1,
                         Min(i * chunk_size, Len(file))))
    /\ (checked.kind = "called" /\ created = "ok") =>
          checked.part_hashes = PyList(part_hashes)

C15_Witness ==
    /\ Len(part_hashes) >= 2
    /\ part_hashes[1] # part_hashes[2]
    /\ Len(completed) >= 2
    /\ completed[1] > completed[2]
    /\ checked.kind = "called"

AllSucceeded ==
    \A i \in DOMAIN futures :
        futures[i].state = "returned" /\ futures[i].result.kind = "ack"

\* C17: parts is written only by the main thread, one element per step and
\* in no step that also moves a worker; and when every dispatched part
\* succeeded the list handed to commit has exactly one acknowledgment for
\* each part number 1..N.
C17_AckListExclusive ==
    /\ [][parts' # parts =>
            /\ pc = "collect"
            /\ Len(parts') = Len(parts) + 1
            /\ futures' = futures]_vars
    /\ []((AllSucceeded /\ completeCalls > 0) =>
            /\ Len(completeArg) = Len(futures)
            /\ \A n \in 1..Len(futures) :
                  Cardinality({k \in DOMAIN completeArg :
                                  completeArg[k].PartNumber = n}) = 1)

C17_Witness ==
    /\ AllSucceeded
    /\ completeCalls = 1
    /\ Len(futures) >= 2
    /\ completed[1] # 1
    /\ \E i \in DOMAIN futures : futures[i].attempt > 0

\* C18: a task is in its retry delay only after a failed attempt that is
\* not the last one of its budget, the delay ends in the next attempt of the
\* same part, a task raises straight from a failed attempt, and while a
\* task is in its delay every other running task can make its attempt and
\* the oldest queued task can start when a worker is free.
C18_DelayBlocksOnlyRetrier ==
    /\ [](\A i \in DOMAIN futures :
            futures[i].state = "sleeping" =>
                /\ futures[i].attempt >= 1
                /\ futures[i].attempt < max_retries
                /\ futures[i].calls = futures[i].attempt
                /\ \A j \in DOMAIN futures \ {i} :
                      /\ futures[j].state = "running" =>
                            ENABLED UploadAttempt(j)
                      /\ (/\ futures[j].state = "queued"
                          /\ \A k \in 1..(j - 1) : futures[k].state # "queued"
                          /\ Cardinality(InFlight(futures)) < max_workers) =>
                            ENABLED StartTask(j))
    /\ [][\A i \in DOMAIN futures :
            /\ (futures[i].state = "sleeping" /\ futures'[i] # futures[i]) =>
                  futures'[i] = [futures[i] EXCEPT !.state = "running"]
            /\ (futures[i].state # "raised" /\ futures'[i].state = "raised") =>
                  futures[i].state = "running"]_vars

C18_Witness ==
    \E i, j \in DOMAIN futures :
        /\ futures[i].state = "sleeping"
        /\ futures[j].state = "running"
        /\ futures[j].calls >= 1
        /\ ENABLED UploadAttempt(j)

\* ------------------------------------- check_file_integrity on its own
\* lines 104-108: digest the local file, ask S3 for the object's ETag
HeadObject ==
    /\ pc = "done"
    /\ checked.kind = "called"
    /\ \/ \E raw \in ETags :
            checked' = [kind |-> "head",
                        part_hashes |-> checked.part_hashes,
                        local_md5 |-> calculate_md5(file),
                        raw |-> raw,
                        etag |-> StripQuotes(raw)]
       \/ checked' = [kind |-> "raised",
                      part_hashes |-> checked.part_hashes,
                      error |-> Error("head_object", 0, 1)]
    /\ UNCHANGED <<inputs, completed, pc, created, session, pos, part_number,
                   part_hashes, futures, ci, parts, exc, completeCalls,
                   completeArg, abortCalls, ret>>

\* lines 111-129: compare and print the verdict
CompareETag ==
    /\ checked.kind = "head"
    /\ checked' = [kind |-> "verdict",
                   part_hashes |-> checked.part_hashes,
                   local_md5 |-> checked.local_md5,
                   raw |-> checked.raw,
                   etag |-> checked.etag,
                   verdict |-> Verdict(checked.local_md5, checked.etag,
                                       checked.part_hashes)]
    /\ UNCHANGED <<inputs, completed, pc, created, session, pos, part_number,
                   part_hashes, futures, ci, parts, exc, completeCalls,
                   completeArg, abortCalls, ret>>

\* the verifier applied to every argument list: upload_file_multipart has
\* just returned None or a list of part digests, of this file or another
InitVerify ==
    /\ file \in Files
    /\ chunk_size \in 1..MaxChunk
    /\ max_workers = 1
    /\ max_retries = 1
    /\ pc = "returned"
    /\ created = "pending"
    /\ session = "none"
    /\ pos = 0
    /\ part_number = 1
    /\ part_hashes = <<>>
    /\ futures = <<>>
    /\ ci = 1
    /\ parts = <<>>
    /\ exc = NoExc
    /\ completeCalls = 0
    /\ completeArg = <<>>
    /\ abortCalls = 0
    /\ \/ ret = [kind |-> "return", value |-> NoneVal]
       \/ \E hl \in HashLists : ret = [kind |-> "return", value |-> PyList(hl)]
    /\ checked = NotCalled
    /\ completed = <<>>

NextVerify ==
    \/ CallCheckFileIntegrity
    \/ HeadObject
    \/ CompareETag

SpecVerify == InitVerify /\ [][NextVerify]_vars

\* C11 (as claimed): "identical" is reported exactly when the tag has no
\* separator and equals the whole-file digest up to the case of its
\* hexadecimal digits, or has a separator and the digest over the
\* concatenated raw part digests equals the text before the separator.
C11_VerdictCaseInsensitive ==
    checked.kind = "verdict" =>
        LET tag == Strip(checked.raw, "\"")
            hs  == checked.part_hashes
        IN  checked.verdict = "identical" <=>
              \/ /\ ~Contains(tag, "-")
                 /\ Lower(tag) = Lower(md5(file))
              \/ /\ Contains(tag, "-")
                 /\ hs.kind = "list"
                 /\ ConcatDigest(hs.items) = SplitFirst(tag, "-")

\* C11 (amended): the same with an exact, case-sensitive comparison of the
\* tag with the lower-case whole-file digest; "different" is reported in
\* every other case, except that nothing is reported (TypeError) when the
\* tag has a separator and part_hashes is None.
C11_VerdictExact ==
    checked.kind = "verdict" =>
        LET tag == Strip(checked.raw, "\"")
            hs  == checked.part_hashes
            same ==
              \/ /\ ~Contains(tag, "-")
                 /\ tag = md5(file)
              \/ /\ Contains(tag, "-")
                 /\ hs.kind = "list"
                 /\ ConcatDigest(hs.items) = SplitFirst(tag, "-")
            none == Contains(tag, "-") /\ hs.kind = "None"
        IN  /\ checked.verdict = "identical" <=> same
            /\ checked.verdict = "TypeError" <=> none
            /\ checked.verdict = "different" <=> (~same /\ ~none)

C11_Witness ==
    /\ checked.kind = "verdict"
    /\ checked.verdict = "identical"
    /\ Contains(checked.etag, "-")
    /\ Len(checked.part_hashes.items) >= 2
    /\ Head(checked.raw) = "\""

====
